---- MODULE Spec2Model ----
(***************************************************************************)
(* A model of the srt crate: Timestamp (src/timestamp.rs), SubLine         *)
(* (src/subline.rs), the Subtitles container with its binary-search        *)
(* queries (src/subtitles.rs) and the prepare / from_str / Display text    *)
(* pipeline (src/utils.rs, src/subtitles.rs).                              *)
(*                                                                         *)
(* Vectors are 1-based TLA+ sequences; every position the code computes    *)
(* (guess_index, min, max, the insert position) is kept 0-based as in the  *)
(* code and shifted by one only where the sequence is read.                *)
(***************************************************************************)
EXTENDS Integers, Sequences, FiniteSets, TLC

VARIABLES inner, result, last, content, rendered, pc, operands, subline

vars == <<inner, result, last, content, rendered, pc, operands, subline>>

\* ------------------------------------------------------------------ bounds
\* Longest container the structural operations build.
MaxLen == 3
\* Cue and query times are TimeOf(0) .. TimeOf(MaxTime).
MaxTime == 3

\* ----------------------------------------------------------- machine words
\* A wrapped usize / u32 (0 - 1 without overflow checks) is 2^64-1 / 2^32-1.
\* The model's integers are 32-bit signed, so the wrapped word is represented
\* by the largest of them; the code only ever compares it with a vector length
\* or halves it.
USIZE_MAX == 2147483647

\* a - b on an unsigned word.  With overflow checks (debug build) the
\* subtraction panics, without them (release build) it wraps.
Overflows(a, b) == a < b
WrappingSub(a, b) == IF a >= b THEN a - b ELSE USIZE_MAX - (b - a) + 1

\* ---------------------------------------------------------------- Timestamp
Timestamp(h, m, s, ms) ==
    [hours |-> h, minutes |-> m, seconds |-> s, miliseconds |-> ms]

\* Timestamp::new carrying one unit at most out of each field.
Timestamp_new_one_carry(hours, minutes, seconds, miliseconds) ==
    LET to_seconds == IF miliseconds >= 1000 THEN 1 ELSE 0
        ms1        == miliseconds - to_seconds * 1000
        s0         == seconds + to_seconds
        to_minutes == IF s0 >= 60 THEN 1 ELSE 0
        s1         == s0 - to_minutes * 60
        m0         == minutes + to_minutes
        to_hours   == IF m0 >= 60 THEN 1 ELSE 0
        m1         == m0 - to_hours * 60
        h1         == hours + to_hours
    IN  [hours |-> h1, minutes |-> m1, seconds |-> s1, miliseconds |-> ms1]

\* Timestamp::new: carries overflow upward, miliseconds -> seconds -> minutes
\* -> hours.
Timestamp_new(hours, minutes, seconds, miliseconds) ==
    LET to_seconds == IF miliseconds >= 1000 THEN miliseconds \div 1000 ELSE 0
        ms1        == miliseconds - to_seconds * 1000
        s0         == seconds + to_seconds
        to_minutes == IF s0 >= 60 THEN s0 \div 60 ELSE 0
        s1         == s0 - to_minutes * 60
        m0         == minutes + to_minutes
        to_hours   == IF m0 >= 60 THEN m0 \div 60 ELSE 0
        m1         == m0 - to_hours * 60
        h1         == hours + to_hours
    IN  Timestamp(h1, m1, s1, ms1)

\* #[derive(PartialOrd, Ord)]: lexicographic over the fields in declaration
\* order hours, minutes, seconds, miliseconds.
Timestamp_lt(a, b) ==
    \/ a.hours < b.hours
    \/ a.hours = b.hours /\ a.minutes < b.minutes
    \/ a.hours = b.hours /\ a.minutes = b.minutes /\ a.seconds < b.seconds
    \/ /\ a.hours = b.hours /\ a.minutes = b.minutes /\ a.seconds = b.seconds
       /\ a.miliseconds < b.miliseconds

Timestamp_le(a, b) == a = b \/ Timestamp_lt(a, b)

\* The times the model builds cues from and queries with: consecutive
\* milliseconds around 01:00:00,000, so that comparing two of them has to
\* look at every field.
TimeOf(n) == Timestamp_new(0, 59, 59, 998 + n)
Times == { TimeOf(n) : n \in 0..MaxTime }

\* ------------------------------------------------------------------ SubLine
SubLine(index, text, start, end) ==
    [index |-> index, start |-> start, end |-> end, text |-> text]

\* SubLine::new panics when start > end; the cues handed to push and insert
\* are the ones it returns.
SubLine_new_ok(start, end) == ~ Timestamp_lt(end, start)

\* No cue is being shifted.
NoLine == [index |-> 0, start |-> 0, end |-> 0, text |-> <<>>]

\* ----------------------------------------------------------------- outcomes
\* What a call hands back: a reference to the cue at 0-based position `at`,
\* nothing, or a panic.
Some(at) == [kind |-> "Some", at |-> at]
None     == [kind |-> "None", at |-> -1]
Panic    == [kind |-> "Panic", at |-> -1]
Done     == [kind |-> "Ok", at |-> -1]

\* Vec::get
Vec_get(v, i) == IF i < Len(v) THEN Some(i) ELSE None

Contains(guess, time) ==
    Timestamp_le(guess.start, time) /\ Timestamp_le(time, guess.end)

\* --------------------------------------------------------- Subtitles queries
\* The binary-search loop shared in shape by the four queries.  It ends in
\*   [kind |-> "found", at |-> guess_index, max |-> _]   the probe holds time
\*   [kind |-> "exit",  max |-> max]                     max < min
\*   [kind |-> "panic"]      unwrap() of a failed get, or guess_index - 1
\*                           overflowing under overflow checks.
\* The loop with `while max > min`: the last candidate is never probed.
RECURSIVE search_loop_strict(_, _, _, _, _)
search_loop_strict(v, time, min, max, checks) ==
    IF max > min
    THEN LET guess_index == (max + min) \div 2 IN
         IF guess_index >= Len(v)
         THEN [kind |-> "panic", at |-> -1, max |-> max]
         ELSE LET guess == v[guess_index + 1] IN
              IF Contains(guess, time)
              THEN [kind |-> "found", at |-> guess_index, max |-> max]
              ELSE IF Timestamp_lt(guess.end, time)
              THEN search_loop_strict(v, time, guess_index + 1, max, checks)
              ELSE IF checks /\ Overflows(guess_index, 1)
              THEN [kind |-> "panic", at |-> -1, max |-> max]
              ELSE search_loop_strict(v, time, min,
                                      WrappingSub(guess_index, 1), checks)
    ELSE [kind |-> "exit", at |-> -1, max |-> max]

RECURSIVE search_loop(_, _, _, _, _)
search_loop(v, time, min, max, checks) ==
    IF max >= min
    THEN LET guess_index == (max + min) \div 2 IN
         IF guess_index >= Len(v)
         THEN [kind |-> "panic", at |-> -1, max |-> max]
         ELSE LET guess == v[guess_index + 1] IN
              IF Contains(guess, time)
              THEN [kind |-> "found", at |-> guess_index, max |-> max]
              ELSE IF Timestamp_lt(guess.end, time)
              THEN search_loop(v, time, guess_index + 1, max, checks)
              ELSE IF checks /\ Overflows(guess_index, 1)
              THEN [kind |-> "panic", at |-> -1, max |-> max]
              ELSE search_loop(v, time, min, WrappingSub(guess_index, 1), checks)
    ELSE [kind |-> "exit", at |-> -1, max |-> max]

\* let mut max = self.inner.len() - 1, then the loop.
search(v, time, checks) ==
    IF checks /\ Overflows(Len(v), 1)
    THEN [kind |-> "panic", at |-> -1, max |-> -1]
    ELSE search_loop(v, time, 0, WrappingSub(Len(v), 1), checks)

\* Subtitles::by_time
by_time(v, time, checks) ==
    LET r == search(v, time, checks) IN
    CASE r.kind = "panic" -> Panic
      [] r.kind = "found" -> Some(r.at)
      [] OTHER            -> None

\* Subtitles::by_time_mut
by_time_mut(v, time, checks) ==
    LET r      == search(v, time, checks)
        found  == r.kind = "found"
        res    == IF found THEN r.at ELSE 0
    IN  IF r.kind = "panic" THEN Panic
        ELSE IF found THEN Vec_get(v, res) ELSE None

\* nearest_by_time falling back on self.inner.get(min): the cue after the gap.
nearest_by_time_min(v, time, checks) ==
    LET r == search(v, time, checks) IN
    CASE r.kind = "panic" -> Panic
      [] r.kind = "found" -> Some(r.at)
      [] OTHER            -> Vec_get(v, r.max + 1)

\* Subtitles::nearest_by_time
nearest_by_time(v, time, checks) ==
    LET r == search(v, time, checks) IN
    CASE r.kind = "panic" -> Panic
      [] r.kind = "found" -> Some(r.at)
      [] OTHER            -> Vec_get(v, r.max)

\* Subtitles::nearest_by_time_mut
nearest_by_time_mut(v, time, checks) ==
    LET r           == search(v, time, checks)
        found_exact == r.kind = "found"
        res         == IF found_exact THEN r.at ELSE 0
    IN  IF r.kind = "panic" THEN Panic
        ELSE IF found_exact THEN Vec_get(v, res) ELSE Vec_get(v, r.max)

\* Subtitles::by_index.  index - 1 overflows for index 0: a panic under
\* overflow checks, otherwise a wrapped word that get() answers with None.  A
\* cue found at the position whose index field is not `index` is a panic.
by_index(v, index, checks) ==
    IF checks /\ Overflows(index, 1)
    THEN Panic
    ELSE LET indexed_subline == Vec_get(v, WrappingSub(index, 1)) IN
         IF indexed_subline.kind = "Some"
                /\ v[indexed_subline.at + 1].index # index
         THEN Panic
         ELSE indexed_subline

\* Subtitles::by_index_mut
by_index_mut(v, index, checks) ==
    IF checks /\ Overflows(index, 1)
    THEN Panic
    ELSE LET indexed_subline == Vec_get(v, WrappingSub(index, 1)) IN
         IF indexed_subline.kind = "Some"
                /\ v[indexed_subline.at + 1].index # index
         THEN Panic
         ELSE indexed_subline

\* ------------------------------------------------ Subtitles structural calls
\* Subtitles::push: [ok |-> FALSE] is the panic, the vector untouched.
push(v, line) ==
    LET last_index == IF Len(v) = 0 THEN 0 ELSE v[Len(v)].index IN
    IF line.index # last_index + 1
    THEN [ok |-> FALSE, v |-> v]
    ELSE [ok |-> TRUE, v |-> Append(v, line)]

\* line.index += 1 over a slice
Bump(s) == [i \in 1..Len(s) |-> [s[i] EXCEPT !.index = @ + 1]]

\* insert without the loop that increments the indices to the right.
insert_no_shift(v, element, checks) ==
    IF checks /\ Overflows(element.index, 1)
    THEN [ok |-> FALSE, v |-> v]
    ELSE LET index == WrappingSub(element.index, 1) IN
         IF index > Len(v)
         THEN [ok |-> FALSE, v |-> v]
         ELSE [ok |-> TRUE,
               v  |-> SubSeq(v, 1, index) \o <<element>>
                      \o SubSeq(v, index + 1, Len(v))]

\* insert whose loop starts one cue too far right: &mut self.inner[index + 1..].
insert_skip_one(v, element, checks) ==
    IF checks /\ Overflows(element.index, 1)
    THEN [ok |-> FALSE, v |-> v]
    ELSE LET index == WrappingSub(element.index, 1) IN
         IF index > Len(v)
         THEN [ok |-> FALSE, v |-> v]
         ELSE [ok |-> TRUE,
               v  |-> SubSeq(v, 1, index) \o <<element>>
                      \o SubSeq(v, index + 1,
                                IF index < Len(v) THEN index + 1 ELSE Len(v))
                      \o Bump(SubSeq(v, index + 2, Len(v)))]

\* Subtitles::insert.  element.index - 1 overflows for index 0 (panic under
\* overflow checks, a wrapped word otherwise) and &mut self.inner[index..]
\* panics when index > len; both happen before anything is written.
insert(v, element, checks) ==
    IF checks /\ Overflows(element.index, 1)
    THEN [ok |-> FALSE, v |-> v]
    ELSE LET index == WrappingSub(element.index, 1) IN
         IF index > Len(v)
         THEN [ok |-> FALSE, v |-> v]
         ELSE [ok |-> TRUE,
               v  |-> SubSeq(v, 1, index) \o <<element>>
                      \o Bump(SubSeq(v, index + 1, Len(v)))]

\* Subtitles::pop
pop(v) ==
    IF Len(v) = 0
    THEN [v |-> v, out |-> None]
    ELSE [v |-> SubSeq(v, 1, Len(v) - 1), out |-> Some(Len(v) - 1)]

\* ------------------------------------------------------------------- actions
\* The calls made so far are summarised by the last one: its name, the index
\* of the line it was given and the time it was asked about.
NoCall == [op |-> "new", index |-> -1, time |-> TimeOf(0)]
Call(op, index, time) == [op |-> op, index |-> index, time |-> time]

\* The arguments of push and insert: any index from 0 to two past the longest
\* container, and start <= end (what SubLine::new lets through) over the
\* earliest and the latest time.
Indices == 0..(MaxLen + 2)
LineTimes == { TimeOf(0), TimeOf(MaxTime) }
Lines ==
    { l \in { SubLine(i, <<"a">>, s, e) : i \in Indices, s \in LineTimes, e \in LineTimes } :
        SubLine_new_ok(l.start, l.end) }

\* Subtitles { inner: Vec::new() }: the empty container the structural calls
\* start from.
Init ==
    /\ inner = <<>>
    /\ result = Done
    /\ last = NoCall
    /\ content = <<>>
    /\ rendered = <<>>
    /\ operands = <<>>
    /\ subline = NoLine
    /\ pc = "container"

Push ==
    \E line \in Lines :
        LET r == push(inner, line) IN
        /\ pc = "container"
        /\ r.ok => Len(inner) < MaxLen
        /\ inner' = r.v
        /\ result' = IF r.ok THEN Done ELSE Panic
        /\ last' = Call("push", line.index, TimeOf(0))
        /\ UNCHANGED <<operands, subline, content, rendered, pc>>

Insert ==
    \E line \in Lines, checks \in BOOLEAN :
        LET r == insert(inner, line, checks) IN
        /\ pc = "container"
        /\ r.ok => Len(inner) < MaxLen
        /\ inner' = r.v
        /\ result' = IF r.ok THEN Done ELSE Panic
        /\ last' = Call("insert", line.index, TimeOf(0))
        /\ UNCHANGED <<operands, subline, content, rendered, pc>>

Pop ==
    LET r == pop(inner) IN
    /\ pc = "container"
    /\ inner' = r.v
    /\ result' = r.out
    /\ last' = Call("pop", -1, TimeOf(0))
    /\ UNCHANGED <<operands, subline, content, rendered, pc>>

Next ==
    \/ Push
    \/ Insert
    \/ Pop

Spec == Init /\ [][Next]_vars

\* ------------------------------------------------------------ query actions
\* The queries run on containers that keep what by_index documents: indices
\* matching positions and the vector sorted by start.  Every such container is
\* one a run of push calls builds.
Ranges ==
    { r \in [start : Times, end : Times] : SubLine_new_ok(r.start, r.end) }

SortedByStart(f) ==
    \A i \in 1..(Len(f) - 1) : Timestamp_le(f[i].start, f[i + 1].start)

InitQuery ==
    /\ \E n \in 0..MaxLen :
         \E f \in [1..n -> Ranges] :
            /\ SortedByStart(f)
            /\ inner = [i \in 1..n |-> SubLine(i, <<"a">>, f[i].start, f[i].end)]
    /\ result = Done
    /\ last = NoCall
    /\ content = <<>>
    /\ rendered = <<>>
    /\ operands = <<>>
    /\ subline = NoLine
    /\ pc = "query"

ByTime ==
    \E time \in Times, checks \in BOOLEAN :
        /\ pc = "query"
        /\ result' = by_time(inner, time, checks)
        /\ last' = Call("by_time", -1, time)
        /\ UNCHANGED <<operands, subline, inner, content, rendered, pc>>

ByTimeMut ==
    \E time \in Times, checks \in BOOLEAN :
        /\ pc = "query"
        /\ result' = by_time_mut(inner, time, checks)
        /\ last' = Call("by_time_mut", -1, time)
        /\ UNCHANGED <<operands, subline, inner, content, rendered, pc>>

NearestByTime ==
    \E time \in Times, checks \in BOOLEAN :
        /\ pc = "query"
        /\ result' = nearest_by_time(inner, time, checks)
        /\ last' = Call("nearest_by_time", -1, time)
        /\ UNCHANGED <<operands, subline, inner, content, rendered, pc>>

NearestByTimeMut ==
    \E time \in Times, checks \in BOOLEAN :
        /\ pc = "query"
        /\ result' = nearest_by_time_mut(inner, time, checks)
        /\ last' = Call("nearest_by_time_mut", -1, time)
        /\ UNCHANGED <<operands, subline, inner, content, rendered, pc>>

ByIndex ==
    \E index \in 0..(MaxLen + 1), checks \in BOOLEAN :
        /\ pc = "query"
        /\ result' = by_index(inner, index, checks)
        /\ last' = Call("by_index", index, TimeOf(0))
        /\ UNCHANGED <<operands, subline, inner, content, rendered, pc>>

ByIndexMut ==
    \E index \in 0..(MaxLen + 1), checks \in BOOLEAN :
        /\ pc = "query"
        /\ result' = by_index_mut(inner, index, checks)
        /\ last' = Call("by_index_mut", index, TimeOf(0))
        /\ UNCHANGED <<operands, subline, inner, content, rendered, pc>>

NextQuery ==
    \/ ByIndex
    \/ ByIndexMut
    \/ ByTime
    \/ ByTimeMut
    \/ NearestByTime
    \/ NearestByTimeMut

SpecQuery == InitQuery /\ [][NextQuery]_vars

\* --------------------------------------------------------------- characters
\* A text is a sequence of one-character strings.
CR == "\r"
LF == "\n"
CRLF == <<CR, LF>>

DigitChars == <<"0", "1", "2", "3", "4", "5", "6", "7", "8", "9">>
IsDigit(c) == \E d \in 1..10 : DigitChars[d] = c
DigitVal(c) == (CHOOSE d \in 1..10 : DigitChars[d] = c) - 1
\* \s of the regex crate over the characters the model writes.
IsSpace(c) == c \in {" ", "\t", LF, CR}

\* str::parse::<u32> of a run of digits.
RECURSIVE ParseU32(_)
ParseU32(ds) ==
    IF ds = <<>> THEN 0
    ELSE ParseU32(SubSeq(ds, 1, Len(ds) - 1)) * 10 + DigitVal(ds[Len(ds)])

\* "{}" of an unsigned number: its decimal digits.
RECURSIVE FmtNum(_)
FmtNum(n) ==
    IF n < 10 THEN <<DigitChars[n + 1]>>
    ELSE FmtNum(n \div 10) \o <<DigitChars[(n % 10) + 1]>>

\* "{:0w}": the decimal digits, zero-padded on the left up to width w.
RECURSIVE ZeroPad(_, _)
ZeroPad(ds, w) == IF Len(ds) >= w THEN ds ELSE ZeroPad(<<"0">> \o ds, w)
FmtPad(n, w) == ZeroPad(FmtNum(n), w)

\* ------------------------------------------------------------------- utils
\* EOF_EMPTY_LINES = \s*?\z, replacen(content, 1, "\r\n\r\n"): the leftmost
\* match starts where the trailing run of whitespace starts (at the end of the
\* text when there is none) and reaches the end of the text.
EOF_EMPTY_LINES_start(s) ==
    CHOOSE p \in 0..Len(s) :
        /\ \A i \in (p + 1)..Len(s) : IsSpace(s[i])
        /\ \A q \in 0..(p - 1) : \E i \in (q + 1)..Len(s) : ~ IsSpace(s[i])

\* The terminator appended with the trailing whitespace left in place.
EOF_EMPTY_LINES_append(s) ==
    s \o CRLF \o CRLF

EOF_EMPTY_LINES_replacen(s) ==
    SubSeq(s, 1, EOF_EMPTY_LINES_start(s)) \o CRLF \o CRLF

\* The pieces ps[lo], ..., ps[hi] joined in order.
RECURSIVE Join(_, _, _)
Join(ps, lo, hi) ==
    IF lo > hi THEN <<>>
    ELSE IF lo = hi THEN ps[lo]
    ELSE LET mid == (lo + hi) \div 2 IN Join(ps, lo, mid) \o Join(ps, mid + 1, hi)

\* UNIFY_NEWLINE_STYLE = (?:\r\n|\n), replace_all(result, "\r\n").  Scanning
\* left to right, a \r followed by \n is matched as the pair and rewritten to
\* itself, any other \n is matched alone and becomes "\r\n", and every other
\* character (a \r without its \n included) is copied.
UNIFY_NEWLINE_STYLE_replace_all(s) ==
    Join([i \in 1..Len(s) |->
            IF s[i] = LF /\ ~ (i > 1 /\ s[i - 1] = CR) THEN CRLF ELSE <<s[i]>>],
         1, Len(s))

\* utils::prepare
prepare(s) == UNIFY_NEWLINE_STYLE_replace_all(EOF_EMPTY_LINES_replacen(s))

\* The time-range line of SUBS, one class per character:
\* (\d{2}):(\d{2}):(\d{2}),(\d{3})\s-->\s(\d{2}):(\d{2}):(\d{2}),(\d{3})
TimeField == <<"d", "d", ":", "d", "d", ":", "d", "d", ",", "d", "d", "d">>
TimeRange == TimeField \o <<"s", "-", "-", ">", "s">> \o TimeField

ClassMatches(class, c) ==
    CASE class = "d" -> IsDigit(c)
      [] class = "s" -> IsSpace(c)
      [] OTHER       -> c = class

\* s holds `what` starting at the 1-based position p.
HasAt(s, p, what) ==
    /\ p + Len(what) - 1 <= Len(s)
    /\ \A i \in 1..Len(what) : s[p + i - 1] = what[i]

NoMatch == [matched |-> FALSE]

\* One attempt of SUBS at position p.  (\d+) is greedy and what follows it
\* starts with \r, so the run of digits is taken whole; ([\S\s]*?) is lazy, so
\* the text ends at the first "\r\n\r\n" after the time-range line.
SUBS_match_at(s, p) ==
    LET digits == CHOOSE d \in 0..(Len(s) - p + 1) :
                    /\ \A i \in p..(p + d - 1) : IsDigit(s[i])
                    /\ (p + d <= Len(s)) => ~ IsDigit(s[p + d])
        q      == p + digits          \* the first \r\n
        t      == q + 2               \* the time-range line
        r      == t + Len(TimeRange)  \* the second \r\n
        x      == r + 2               \* the text
        Ends   == { j \in x..Len(s) : HasAt(s, j, CRLF \o CRLF) }
    IN  IF /\ p <= Len(s)
           /\ digits >= 1
           /\ HasAt(s, q, CRLF)
           /\ r - 1 <= Len(s)
           /\ \A i \in 1..Len(TimeRange) : ClassMatches(TimeRange[i], s[t + i - 1])
           /\ HasAt(s, r, CRLF)
           /\ Ends # {}
        THEN LET j == CHOOSE e \in Ends : \A o \in Ends : e <= o IN
             [matched |-> TRUE,
              from    |-> p,
              upto    |-> j + 3,
              index   |-> SubSeq(s, p, q - 1),
              start   |-> <<SubSeq(s, t, t + 1), SubSeq(s, t + 3, t + 4),
                            SubSeq(s, t + 6, t + 7), SubSeq(s, t + 9, t + 11)>>,
              end     |-> <<SubSeq(s, t + 17, t + 18), SubSeq(s, t + 20, t + 21),
                            SubSeq(s, t + 23, t + 24), SubSeq(s, t + 26, t + 28)>>,
              text    |-> SubSeq(s, x, j - 1)]
        ELSE NoMatch

\* The leftmost match of SUBS starting at position p or later.
SUBS_find(s, p) ==
    LET Starts == { q \in p..Len(s) : SUBS_match_at(s, q).matched } IN
    IF Starts = {} THEN NoMatch
    ELSE SUBS_match_at(s, CHOOSE q \in Starts : \A o \in Starts : q <= o)

\* SUBS.captures_iter: the successive non-overlapping matches, left to right.
RECURSIVE SUBS_captures_iter(_, _)
SUBS_captures_iter(s, p) ==
    LET m == SUBS_find(s, p) IN
    IF m.matched THEN <<m>> \o SUBS_captures_iter(s, m.upto + 1) ELSE <<>>

\* utils::check
check(s) == SUBS_find(s, 1).matched

\* ---------------------------------------------------- Subtitles from / to text
\* impl From<&[u32; 4]> for Timestamp
Timestamp_from(a) == Timestamp_new(a[1], a[2], a[3], a[4])

\* impl From<Vec<SubLine>> for Subtitles
Subtitles_from(vec) == vec

\* Subtitles::from_str
from_str(s) ==
    LET caps == SUBS_captures_iter(s, 1) IN
    Subtitles_from(
        [i \in 1..Len(caps) |->
            SubLine(ParseU32(caps[i].index),
                    caps[i].text,
                    Timestamp_from([k \in 1..4 |-> ParseU32(caps[i].start[k])]),
                    Timestamp_from([k \in 1..4 |-> ParseU32(caps[i].end[k])]))])

\* {h:02}:{m:02}:{s:02},{ms:03}
Timestamp_fmt(t) ==
    FmtPad(t.hours, 2) \o <<":">> \o FmtPad(t.minutes, 2) \o <<":">>
        \o FmtPad(t.seconds, 2) \o <<",">> \o FmtPad(t.miliseconds, 3)

\* impl Display for SubLine
SubLine_fmt(line) ==
    FmtNum(line.index) \o CRLF
        \o Timestamp_fmt(line.start) \o <<" ", "-", "-", ">", " ">>
        \o Timestamp_fmt(line.end) \o CRLF
        \o line.text \o CRLF \o CRLF

FmtLines(v) == Join([i \in 1..Len(v) |-> SubLine_fmt(v[i])], 1, Len(v))

\* Display that stops after the last cue's own blank line.
Subtitles_fmt_bare(v) == FmtLines(v)

\* impl Display for Subtitles
Subtitles_fmt(v) == FmtLines(v) \o CRLF \o CRLF

\* ------------------------------------------------------- construction action
\* Any vector of cues can be handed to Subtitles::from: the fields of SubLine
\* are public, so neither its index nor the order of its times is constrained.
AnyLines ==
    { SubLine(i, <<"a">>, s, e) :
        i \in 1..(MaxLen + 1), s \in LineTimes, e \in LineTimes }

InitFrom ==
    /\ inner = <<>>
    /\ result = Done
    /\ last = NoCall
    /\ content = <<>>
    /\ rendered = <<>>
    /\ operands = <<>>
    /\ subline = NoLine
    /\ pc = "construct"

From ==
    \E n \in 0..MaxLen :
        \E vec \in [1..n -> AnyLines] :
            /\ pc = "construct"
            /\ inner' = Subtitles_from(vec)
            /\ result' = Done
            /\ last' = Call("from", -1, TimeOf(0))
            /\ pc' = "constructed"
            /\ UNCHANGED <<operands, subline, content, rendered>>

NextFrom == From

SpecFrom == InitFrom /\ [][NextFrom]_vars

\* ------------------------------------------------------------- text actions
\* The texts handed to the pipeline are written block by block.  The block at
\* position i is one of
\*   plain        index i, times TimeOf(2i-2) --> TimeOf(2i-1), text "a"
\*   two_lines    as plain, with the text "a", a line break, "b"
\*   zero_index   as plain, with the index written with a leading zero
\*   skip_index   as plain, with the index i + 1
\*   carry        as plain, with 59 seconds 1000+ms written as seconds 60+
\*   backwards    as plain, with the two times exchanged
\*   stray        not a block: the line "x"
\* each followed by a blank line.
MaxBlocks == 2

BlockKinds ==
    {"plain", "two_lines", "zero_index", "skip_index", "carry", "backwards",
     "stray"}

\* The line breaks of a text: inside a block and in the blank line after it.
NewlineStyles ==
    { <<(<<LF>>), (<<LF>>)>>, <<CRLF, CRLF>>, <<(<<CR>>), (<<CR>>)>>,
      <<(<<LF>>), CRLF>> }

\* The end of a text: the blank line as written, no blank line at all, a
\* third line break, or lines of spaces after the blank line.
Trailers == {"blank_line", "none", "extra_break", "spaces"}

\* A time written with its seconds not carried into the minutes.
UncarriedFmt(t) ==
    IF t.minutes = 0 /\ t.hours > 0
    THEN FmtPad(t.hours - 1, 2) \o <<":">> \o FmtPad(59, 2) \o <<":">>
            \o FmtPad(60 + t.seconds, 2) \o <<",">> \o FmtPad(t.miliseconds, 3)
    ELSE FmtPad(t.hours, 2) \o <<":">> \o FmtPad(t.minutes - 1, 2) \o <<":">>
            \o FmtPad(60 + t.seconds, 2) \o <<",">> \o FmtPad(t.miliseconds, 3)

Arrow == <<" ", "-", "-", ">", " ">>

BlockText(i, kind, nl) ==
    LET s == TimeOf(2 * i - 2)
        e == TimeOf(2 * i - 1)
        idx == CASE kind = "zero_index" -> <<"0">> \o FmtNum(i)
                 [] kind = "skip_index" -> FmtNum(i + 1)
                 [] OTHER               -> FmtNum(i)
        tl  == CASE kind = "carry" ->
                        UncarriedFmt(s) \o Arrow \o UncarriedFmt(e)
                 [] kind = "backwards" ->
                        Timestamp_fmt(e) \o Arrow \o Timestamp_fmt(s)
                 [] OTHER ->
                        Timestamp_fmt(s) \o Arrow \o Timestamp_fmt(e)
        txt == IF kind = "two_lines" THEN <<"a">> \o nl[1] \o <<"b">> ELSE <<"a">>
    IN  IF kind = "stray"
        THEN <<"x">> \o nl[2] \o nl[2]
        ELSE idx \o nl[1] \o tl \o nl[1] \o txt \o nl[2] \o nl[2]

TextOf(kinds, nl, trailer) ==
    LET body == Join([i \in 1..Len(kinds) |-> BlockText(i, kinds[i], nl)],
                     1, Len(kinds))
        cut  == Len(body) - 2 * Len(nl[2])
    IN  CASE trailer = "none" /\ Len(kinds) > 0 -> SubSeq(body, 1, cut)
          [] trailer = "extra_break" -> body \o nl[2]
          [] trailer = "spaces" -> body \o <<" ">> \o nl[2] \o <<" ", " ">> \o nl[2]
          [] OTHER -> body

InitText ==
    /\ \E n \in 0..MaxBlocks :
         \E kinds \in [1..n -> BlockKinds], nl \in NewlineStyles,
            trailer \in Trailers :
                content = TextOf(kinds, nl, trailer)
    /\ inner = <<>>
    /\ result = Done
    /\ last = NoCall
    /\ rendered = <<>>
    /\ operands = <<>>
    /\ subline = NoLine
    /\ pc = "raw"

\* content = utils::prepare(&content)
Prepare ==
    /\ pc = "raw"
    /\ content' = prepare(content)
    /\ pc' = "prepared"
    /\ last' = Call("prepare", -1, TimeOf(0))
    /\ UNCHANGED <<operands, subline, inner, result, rendered>>

\* Subtitles::from_str(&content), which always returns Ok.
FromStr ==
    /\ pc = "prepared"
    /\ inner' = from_str(content)
    /\ result' = Done
    /\ pc' = "parsed"
    /\ last' = Call("from_str", -1, TimeOf(0))
    /\ UNCHANGED <<operands, subline, content, rendered>>

\* subs.to_string()
ToStringCall ==
    /\ pc = "parsed"
    /\ rendered' = Subtitles_fmt(inner)
    /\ pc' = "rendered"
    /\ last' = Call("to_string", -1, TimeOf(0))
    /\ UNCHANGED <<operands, subline, inner, result, content>>

NextText ==
    \/ Prepare
    \/ FromStr
    \/ ToStringCall

SpecText == InitText /\ [][NextText]_vars

\* ------------------------------------------------------ Timestamp arithmetic
\* What an operator hands back: a timestamp, or a panic.
TsOk(t) == [kind |-> "Ok", value |-> t]
TsPanic == [kind |-> "Panic", value |-> Timestamp(0, 0, 0, 0)]

\* Timestamp::total_miliseconds
total_miliseconds(self) ==
    self.miliseconds + self.seconds * 1000 + self.minutes * 60000
        + self.hours * 360000

\* Ord::cmp as derived for Timestamp.
Timestamp_cmp(a, b) ==
    IF Timestamp_lt(a, b) THEN "Less"
    ELSE IF Timestamp_lt(b, a) THEN "Greater" ELSE "Equal"

\* Add::add that carries seconds into minutes but never minutes into hours.
add_no_hour_carry(self, other) ==
    LET ms0        == self.miliseconds + other.miliseconds
        s0         == self.seconds + other.seconds
        m0         == self.minutes + other.minutes
        h0         == self.hours + other.hours
        to_seconds == IF ms0 >= 1000 THEN ms0 \div 1000 ELSE 0
        s1         == s0 + to_seconds
        ms1        == ms0 - to_seconds * 1000
        to_minutes == IF s1 >= 60 THEN s1 \div 60 ELSE 0
        m1         == m0 + to_minutes
        s2         == s1 - to_minutes * 60
    IN  Timestamp(h0, m1, s2, ms1)

\* impl Add for Timestamp
add(self, other) ==
    LET ms0        == self.miliseconds + other.miliseconds
        s0         == self.seconds + other.seconds
        m0         == self.minutes + other.minutes
        h0         == self.hours + other.hours
        to_seconds == IF ms0 >= 1000 THEN ms0 \div 1000 ELSE 0
        s1         == s0 + to_seconds
        ms1        == ms0 - to_seconds * 1000
        to_minutes == IF s1 >= 60 THEN s1 \div 60 ELSE 0
        m1         == m0 + to_minutes
        s2         == s1 - to_minutes * 60
        to_hours   == IF m1 >= 60 THEN m1 \div 60 ELSE 0
        h1         == h0 + to_hours
        m2         == m1 - to_hours * 60
    IN  Timestamp(h1, m2, s2, ms1)

\* impl AddAssign for Timestamp: the value of self afterwards.
add_assign(self, timestamp) ==
    LET h0         == self.hours + timestamp.hours
        m0         == self.minutes + timestamp.minutes
        s0         == self.seconds + timestamp.seconds
        ms0        == self.miliseconds + timestamp.miliseconds
        to_seconds == IF ms0 >= 1000 THEN ms0 \div 1000 ELSE 0
        s1         == s0 + to_seconds
        ms1        == ms0 - to_seconds * 1000
        to_minutes == IF s1 >= 60 THEN s1 \div 60 ELSE 0
        m1         == m0 + to_minutes
        s2         == s1 - to_minutes * 60
        to_hours   == IF m1 >= 60 THEN m1 \div 60 ELSE 0
        h1         == h0 + to_hours
        m2         == m1 - to_hours * 60
    IN  Timestamp(h1, m2, s2, ms1)

\* The borrowing subtraction of sub and sub_assign after their self < other
\* test, every `-` on a u32: .value is what the fields end up as when no
\* subtraction is checked, .overflow whether one of them went below zero.
Borrowing(self, other) ==
    LET h0  == WrappingSub(self.hours, other.hours)
        bm  == self.minutes < other.minutes
        m0  == IF bm THEN self.minutes + 60 ELSE self.minutes
        h1  == IF bm THEN WrappingSub(h0, 1) ELSE h0
        m1  == WrappingSub(m0, other.minutes)
        bs  == self.seconds < other.seconds
        bsm == bs /\ m1 = 0
        m2  == IF bsm THEN m1 + 60 ELSE m1
        h2  == IF bsm THEN WrappingSub(h1, 1) ELSE h1
        s0  == IF bs THEN self.seconds + 60 ELSE self.seconds
        m3  == IF bs THEN WrappingSub(m2, 1) ELSE m2
        s1  == WrappingSub(s0, other.seconds)
        bl  == self.miliseconds < other.miliseconds
        bls == bl /\ s1 = 0
        blm == bls /\ m3 = 0
        m4  == IF blm THEN m3 + 60 ELSE m3
        h3  == IF blm THEN WrappingSub(h2, 1) ELSE h2
        s2  == IF bls THEN s1 + 60 ELSE s1
        m5  == IF bls THEN WrappingSub(m4, 1) ELSE m4
        l0  == IF bl THEN self.miliseconds + 1000 ELSE self.miliseconds
        s3  == IF bl THEN WrappingSub(s2, 1) ELSE s2
        l1  == WrappingSub(l0, other.miliseconds)
    IN  [value    |-> Timestamp(h3, m5, s3, l1),
         overflow |->
            \/ Overflows(self.hours, other.hours)
            \/ bm /\ Overflows(h0, 1)
            \/ Overflows(m0, other.minutes)
            \/ bsm /\ Overflows(h1, 1)
            \/ bs /\ Overflows(m2, 1)
            \/ Overflows(s0, other.seconds)
            \/ blm /\ Overflows(h2, 1)
            \/ bls /\ Overflows(m4, 1)
            \/ bl /\ Overflows(s2, 1)
            \/ Overflows(l0, other.miliseconds)]

\* The borrowing with the seconds and milliseconds borrows taken from the
\* minutes and seconds as they are, without the nested `if ... == 0` borrows.
BorrowingFlat(self, other) ==
    LET h0  == WrappingSub(self.hours, other.hours)
        bm  == self.minutes < other.minutes
        m0  == IF bm THEN self.minutes + 60 ELSE self.minutes
        h1  == IF bm THEN WrappingSub(h0, 1) ELSE h0
        m1  == WrappingSub(m0, other.minutes)
        bs  == self.seconds < other.seconds
        s0  == IF bs THEN self.seconds + 60 ELSE self.seconds
        m3  == IF bs THEN WrappingSub(m1, 1) ELSE m1
        s1  == WrappingSub(s0, other.seconds)
        bl  == self.miliseconds < other.miliseconds
        l0  == IF bl THEN self.miliseconds + 1000 ELSE self.miliseconds
        s3  == IF bl THEN WrappingSub(s1, 1) ELSE s1
        l1  == WrappingSub(l0, other.miliseconds)
    IN  [value    |-> Timestamp(h1, m3, s3, l1),
         overflow |->
            \/ Overflows(self.hours, other.hours)
            \/ bm /\ Overflows(h0, 1)
            \/ Overflows(m0, other.minutes)
            \/ bs /\ Overflows(m1, 1)
            \/ Overflows(s0, other.seconds)
            \/ bl /\ Overflows(s1, 1)
            \/ Overflows(l0, other.miliseconds)]

\* Sub::sub with the borrows not nested.
sub_flat(self, other, checks) ==
    IF Timestamp_lt(self, other) THEN TsPanic
    ELSE LET r == BorrowingFlat(self, other) IN
         IF checks /\ r.overflow THEN TsPanic ELSE TsOk(r.value)

\* Sub::sub without its self < other test.
sub_unguarded(self, other, checks) ==
    LET r == Borrowing(self, other) IN
    IF checks /\ r.overflow THEN TsPanic ELSE TsOk(r.value)

\* impl Sub for Timestamp
sub(self, other, checks) ==
    IF Timestamp_lt(self, other) THEN TsPanic
    ELSE LET r == Borrowing(self, other) IN
         IF checks /\ r.overflow THEN TsPanic ELSE TsOk(r.value)

\* impl SubAssign for Timestamp: .value is self afterwards, which the panic
\* of the self < other test leaves as it was.
sub_assign(self, other, checks) ==
    IF Timestamp_lt(self, other) THEN [kind |-> "Panic", value |-> self]
    ELSE LET r == Borrowing(self, other) IN
         IF checks /\ r.overflow
         THEN [kind |-> "Panic", value |-> r.value]
         ELSE TsOk(r.value)

\* SubLine::duration
duration(self, checks) == sub(self.end, self.start, checks)

\* --------------------------------------------------- Timestamp::new action
\* The fields handed to Timestamp::new: up to MaxCarry whole units too many in
\* the minutes, seconds and milliseconds, and milliseconds worth ten minutes
\* and one hour.
MaxHours == 1
MaxCarry == 2

NewHours == 0..MaxHours
NewMinutes == { 60 * k + r : k \in 0..MaxCarry, r \in {0, 1, 59} }
NewSeconds == { 60 * k + r : k \in 0..MaxCarry, r \in {0, 1, 59} }
NewMiliseconds ==
    { 1000 * k + r : k \in 0..MaxCarry, r \in {0, 100, 999} }
        \cup {600000, 3600000}

InitNew ==
    /\ operands \in { <<h, m, sec, ms>> :
            h \in NewHours, m \in NewMinutes, sec \in NewSeconds,
            ms \in NewMiliseconds }
    /\ inner = <<>>
    /\ result = Done
    /\ last = NoCall
    /\ content = <<>>
    /\ rendered = <<>>
    /\ subline = NoLine
    /\ pc = "fields"

New ==
    /\ pc = "fields"
    /\ result' = Timestamp_new(operands[1], operands[2], operands[3], operands[4])
    /\ pc' = "new"
    /\ UNCHANGED <<inner, last, content, rendered, operands, subline>>

NextNew == New

SpecNew == InitNew /\ [][NextNew]_vars

\* ------------------------------------------------ Timestamp operator actions
\* The operands of the operators: normalized timestamps with every field at
\* its least or its greatest value, so that every carry and every borrow is
\* taken and not taken.
ArithTimes ==
    { Timestamp(h, m, sec, ms) :
        h \in 0..MaxHours, m \in {0, 59}, sec \in {0, 59}, ms \in {0, 999} }

InitArith ==
    /\ operands \in ArithTimes \X ArithTimes \X ArithTimes
    /\ inner = <<>>
    /\ result = Done
    /\ last = NoCall
    /\ content = <<>>
    /\ rendered = <<>>
    /\ subline = NoLine
    /\ pc = "operands"

\* a.cmp(&b)
Compare ==
    /\ pc = "operands"
    /\ result' = Timestamp_cmp(operands[1], operands[2])
    /\ pc' = "cmp"
    /\ UNCHANGED <<inner, last, content, rendered, operands, subline>>

\* a + b
Add ==
    /\ pc = "operands"
    /\ result' = TsOk(add(operands[1], operands[2]))
    /\ pc' = "add"
    /\ UNCHANGED <<inner, last, content, rendered, operands, subline>>

\* a += b
AddAssign ==
    /\ pc = "operands"
    /\ operands' = [operands EXCEPT ![1] = add_assign(operands[1], operands[2])]
    /\ result' = Done
    /\ pc' = "add_assign"
    /\ UNCHANGED <<inner, last, content, rendered, subline>>

\* a - b
Sub ==
    \E checks \in BOOLEAN :
        /\ pc = "operands"
        /\ result' = sub(operands[1], operands[2], checks)
        /\ pc' = "sub"
        /\ UNCHANGED <<inner, last, content, rendered, operands, subline>>

\* a -= b
SubAssign ==
    \E checks \in BOOLEAN :
        LET r == sub_assign(operands[1], operands[2], checks) IN
        /\ pc = "operands"
        /\ operands' = [operands EXCEPT ![1] = r.value]
        /\ result' = IF r.kind = "Ok" THEN Done ELSE Panic
        /\ pc' = "sub_assign"
        /\ UNCHANGED <<inner, last, content, rendered, subline>>

\* SubLine { index: 1, start: a, end: b, text }.duration()
Duration ==
    \E checks \in BOOLEAN :
        /\ pc = "operands"
        /\ result' = duration(SubLine(1, <<"a">>, operands[1], operands[2]), checks)
        /\ pc' = "duration"
        /\ UNCHANGED <<inner, last, content, rendered, operands, subline>>

NextArith ==
    \/ Compare
    \/ Add
    \/ AddAssign
    \/ Sub
    \/ SubAssign
    \/ Duration

SpecArith == InitArith /\ [][NextArith]_vars

\* ------------------------------------------------------ SubLine::shift (lib)
\* The cue of src/lib.rs keeps start and end as u32 milliseconds.
LibSubLine(text, index, start, end) ==
    [index |-> index, start |-> start, end |-> end, text |-> text]

Err == [kind |-> "Err", at |-> -1]

\* shift that tests the end only before subtracting from start and end.
shift_end_only(self, offset) ==
    IF offset > 0
    THEN [out |-> Done,
          self |-> [self EXCEPT !.start = @ + offset, !.end = @ + offset]]
    ELSE IF offset < 0
    THEN IF (-offset) >= self.end
         THEN [out |-> Err, self |-> self]
         ELSE [out |-> Done,
               self |-> [self EXCEPT !.start = WrappingSub(@, -offset),
                                     !.end = @ - (-offset)]]
    ELSE [out |-> Err, self |-> self]

\* SubLine::shift of src/lib.rs: .out is the Result, .self the cue afterwards.
shift(self, offset) ==
    IF offset > 0
    THEN [out |-> Done,
          self |-> [self EXCEPT !.start = @ + offset, !.end = @ + offset]]
    ELSE IF offset < 0
    THEN IF (-offset) >= self.start \/ (-offset) >= self.end
         THEN [out |-> Err, self |-> self]
         ELSE [out |-> Done,
               self |-> [self EXCEPT !.start = @ - (-offset),
                                     !.end = @ - (-offset)]]
    ELSE [out |-> Err, self |-> self]

\* Cues with start <= end up to MaxMs milliseconds, shifted by any offset that
\* reaches past them in either direction.
MaxMs == 3

InitShift ==
    /\ subline \in { LibSubLine(<<"a">>, 1, st, st + len) :
            st \in 0..MaxMs, len \in 0..MaxMs }
    /\ operands \in { <<offset>> : offset \in (-(2 * MaxMs + 1))..(2 * MaxMs + 1) }
    /\ inner = <<>>
    /\ result = Done
    /\ last = NoCall
    /\ content = <<>>
    /\ rendered = <<>>
    /\ pc = "cue"

Shift ==
    LET r == shift(subline, operands[1]) IN
    /\ pc = "cue"
    /\ subline' = r.self
    /\ result' = r.out
    /\ pc' = "shift"
    /\ UNCHANGED <<inner, last, content, rendered, operands>>

NextShift == Shift

SpecShift == InitShift /\ [][NextShift]_vars

\* ------------------------------------------------------ Subtitles::from_file
\* Error::new(ErrorKind::InvalidData, ...)
InvalidData == [kind |-> "InvalidData", at |-> -1]

\* Subtitles::from_file on a file that reads as content: the text is prepared,
\* refused when check finds no block, and handed to from_str otherwise.
FromFile ==
    LET prepared == prepare(content) IN
    /\ pc = "raw"
    /\ content' = prepared
    /\ IF ~ check(prepared)
       THEN result' = InvalidData /\ inner' = inner
       ELSE result' = Done /\ inner' = from_str(prepared)
    /\ pc' = "from_file"
    /\ last' = Call("from_file", -1, TimeOf(0))
    /\ UNCHANGED <<operands, subline, rendered>>

\* The two ways into a Subtitles from a text: from_file on the raw text, and
\* from_str on a text the caller has prepared.
NextParse ==
    \/ FromFile
    \/ Prepare
    \/ FromStr

SpecParse == InitText /\ [][NextParse]_vars

\* ---------------------------------------------------- container invariants
\* inner[i].index == i + 1 for the 0-based position i.
IndexContiguous(v) == \A i \in 1..Len(v) : v[i].index = i

\* Sorted ranges that do not touch: every cue ends before the next one starts.
Disjoint(v) ==
    /\ \A i \in 1..Len(v) : Timestamp_le(v[i].start, v[i].end)
    /\ \A i \in 1..(Len(v) - 1) : Timestamp_lt(v[i].end, v[i + 1].start)

IsByTime == last.op \in {"by_time", "by_time_mut"}
IsNearest == last.op \in {"nearest_by_time", "nearest_by_time_mut"}

\* ------------------------------------------------------------------- claims
\* C2: starting from the empty container, after any run of push, insert and
\* pop every cue's index is its position plus one, and a push or insert whose
\* index argument does not fit (push: not len + 1, insert: outside 1..len + 1)
\* panics and leaves the container as it was.
C2_IndexContiguity ==
    /\ [](IndexContiguous(inner))
    /\ [][ /\ (last'.op = "push" /\ last'.index # Len(inner) + 1)
                => (result' = Panic /\ inner' = inner)
           /\ (last'.op = "insert" /\ last'.index \notin 1..(Len(inner) + 1))
                => (result' = Panic /\ inner' = inner)
           /\ (result' = Panic) => (inner' = inner) ]_vars

\* An insert at the front of a container of two or more cues went through.
C2_Witness ==
    /\ last.op = "insert" /\ last.index = 1 /\ result = Done
    /\ Len(inner) >= 3

\* C3: after any run of push, insert and pop the cues are ordered by start
\* ascending.
C3_TimeOrder == SortedByStart(inner)

\* C5: on sorted, pairwise disjoint ranges, by_time and by_time_mut asked for a
\* time inside cue k hand back the cue at position k.
C5_ByTimeHit ==
    (IsByTime /\ Disjoint(inner)) =>
        \A k \in 1..Len(inner) :
            Contains(inner[k], last.time) => result = Some(k - 1)

\* by_time_mut found the last of three disjoint cues at its inclusive end.
C5_Witness ==
    /\ last.op = "by_time_mut" /\ Disjoint(inner) /\ Len(inner) = 3
    /\ last.time = inner[3].end /\ inner[3].start # inner[3].end
    /\ result = Some(2)

\* C6: on a non-empty container of sorted, disjoint ranges, by_time and
\* by_time_mut asked for a time no cue contains hand back nothing.
C6_ByTimeMiss ==
    (IsByTime /\ Disjoint(inner) /\ Len(inner) >= 1
        /\ \A k \in 1..Len(inner) : ~ Contains(inner[k], last.time))
    => result = None

\* C7: on sorted, disjoint ranges, nearest_by_time and nearest_by_time_mut
\* asked for a time from cue k's start up to, not including, cue k+1's start
\* hand back cue k.
C7_NearestBridges ==
    (IsNearest /\ Disjoint(inner)) =>
        \A k \in 1..(Len(inner) - 1) :
            (Timestamp_le(inner[k].start, last.time)
                /\ Timestamp_lt(last.time, inner[k + 1].start))
            => result = Some(k - 1)

\* nearest_by_time asked for a time in the gap after the second of three cues
\* handed back the second.
C7_Witness ==
    /\ last.op = "nearest_by_time" /\ Disjoint(inner) /\ Len(inner) = 3
    /\ Timestamp_lt(inner[2].end, last.time)
    /\ Timestamp_lt(last.time, inner[3].start)
    /\ result = Some(1)

\* C8: on a non-empty container, nearest_by_time and nearest_by_time_mut hand
\* back nothing when the time is before the first start or after the last end,
\* and a cue for every other time.
C8_NearestOutOfRange ==
    (IsNearest /\ Disjoint(inner) /\ Len(inner) >= 1) =>
        IF \/ Timestamp_lt(last.time, inner[1].start)
           \/ Timestamp_lt(inner[Len(inner)].end, last.time)
        THEN result = None
        ELSE result.kind = "Some"

\* C9: wherever cue A ends at the very time t the next cue B starts, by_time(t)
\* hands back A and nearest_by_time(t) hands back B.
C9_BoundaryTie ==
    \A k \in 1..(Len(inner) - 1) :
        (inner[k].end = last.time /\ inner[k + 1].start = last.time) =>
            /\ (last.op = "by_time") => result = Some(k - 1)
            /\ (last.op = "nearest_by_time") => result = Some(k)

\* C10: on the empty container all four queries hand back nothing.
C10_EmptyContainer ==
    (Len(inner) = 0 /\ (IsByTime \/ IsNearest)) => result = None

\* The normalized text is nothing but blocks as Display writes them: the
\* matches of SUBS follow one another from the first character to the last,
\* no index is written with a leading zero, and no minutes or seconds field
\* is 60 or more.
OnlyCanonicalBlocks(s) ==
    LET caps == SUBS_captures_iter(s, 1) IN
    /\ Len(caps) >= 1
    /\ caps[1].from = 1
    /\ caps[Len(caps)].upto = Len(s)
    /\ \A i \in 1..(Len(caps) - 1) : caps[i + 1].from = caps[i].upto + 1
    /\ \A i \in 1..Len(caps) :
        /\ caps[i].index[1] # "0" \/ Len(caps[i].index) = 1
        /\ \A k \in 2..3 :
            ParseU32(caps[i].start[k]) < 60 /\ ParseU32(caps[i].end[k]) < 60

\* C1 as stated: the text rendered from the parsed cues is the normalized
\* text, for every normalized text the format check accepts.
C1_RoundTripExact ==
    (pc = "rendered" /\ check(content)) => rendered = content

\* C1 amended: when the normalized text is nothing but canonical blocks, the
\* rendered text is the normalized text followed by one more "\r\n\r\n".
C1_RoundTrip ==
    (pc = "rendered" /\ OnlyCanonicalBlocks(content))
        => rendered = content \o CRLF \o CRLF

\* Two blocks, one with a two-line text, written with bare \n and no blank
\* line at the end, were normalized, parsed and rendered.
C1_Witness ==
    /\ pc = "rendered" /\ OnlyCanonicalBlocks(content)
    /\ Len(inner) = 2
    /\ \E i \in 1..2 : Len(inner[i].text) > 1
    /\ rendered = content \o CRLF \o CRLF

\* C4: a Subtitles built from a vector never breaks the container invariants
\* (indices matching positions, start <= end in every cue, starts ascending).
C4_ConstructionValidates ==
    (pc = "constructed" /\ result = Done) =>
        /\ IndexContiguous(inner)
        /\ SortedByStart(inner)
        /\ \A i \in 1..Len(inner) : Timestamp_le(inner[i].start, inner[i].end)

IsByIndex == last.op \in {"by_index", "by_index_mut"}

\* C11 as stated: on a container with contiguous indices, by_index(i) and
\* by_index_mut(i) hand back the cue at position i - 1 when 1 <= i <= len and
\* nothing for every other i, 0 included.
C11_ByIndex ==
    (IsByIndex /\ IndexContiguous(inner)) =>
        IF last.index \in 1..Len(inner)
        THEN result = Some(last.index - 1)
        ELSE result = None

Magnitude(t) ==
    t.hours * 3600000 + t.minutes * 60000 + t.seconds * 1000 + t.miliseconds

Normalized(t) == t.miliseconds < 1000 /\ t.seconds < 60 /\ t.minutes < 60

IntCmp(x, y) == IF x < y THEN "Less" ELSE IF x > y THEN "Greater" ELSE "Equal"

\* C13: Timestamp::new(h, m, s, ms) has milliseconds < 1000, seconds < 60,
\* minutes < 60 and denotes h*3600000 + m*60000 + s*1000 + ms.
C13_NewCarries ==
    (pc = "new") =>
        /\ Normalized(result)
        /\ Magnitude(result) =
              operands[1] * 3600000 + operands[2] * 60000
                  + operands[3] * 1000 + operands[4]

\* new(1, 120, 120, 1000) came out as 03:02:01,000.
C13_Witness ==
    /\ pc = "new"
    /\ operands = <<1, 120, 120, 1000>>
    /\ result = Timestamp(3, 2, 1, 0)

\* C14: the outcome of comparing two normalized timestamps is the outcome of
\* comparing their total_miliseconds().
C14_Ordering ==
    (pc = "cmp") =>
        result = IntCmp(total_miliseconds(operands[1]),
                        total_miliseconds(operands[2]))

\* C15: for normalized a, b, c: a + b is Timestamp::new of the field-wise
\* sums, a + b = b + a, (a + b) + c = a + (b + c), and a += b leaves a + b in a.
C15_Addition ==
    /\ []( (pc = "add") =>
            LET a == operands[1]
                b == operands[2]
                c == operands[3]
            IN  /\ result.value =
                      Timestamp_new(a.hours + b.hours, a.minutes + b.minutes,
                                    a.seconds + b.seconds,
                                    a.miliseconds + b.miliseconds)
                /\ Normalized(result.value)
                /\ result.value = add(b, a)
                /\ add(result.value, c) = add(a, add(b, c)) )
    /\ [][ (pc' = "add_assign") =>
                operands'[1] = add(operands[1], operands[2]) ]_vars

\* 01:59:59,999 + 00:00:00,999 carried through every field to 02:00:00,998.
C15_Witness ==
    /\ pc = "add"
    /\ operands[1] = Timestamp(1, 59, 59, 999)
    /\ operands[2] = Timestamp(0, 0, 0, 999)
    /\ result.value = Timestamp(2, 0, 0, 998)

\* C16: for normalized a >= b: a - b is a normalized timestamp denoting
\* magnitude(a) - magnitude(b), (a - b) + b = a, (a + b) - b = a, and a -= b
\* leaves a - b in a.
C16_Subtraction ==
    /\ []( (pc = "sub" /\ ~ Timestamp_lt(operands[1], operands[2])) =>
            LET a == operands[1]
                b == operands[2]
            IN  /\ result.kind = "Ok"
                /\ Normalized(result.value)
                /\ Magnitude(result.value) = Magnitude(a) - Magnitude(b)
                /\ add(result.value, b) = a
                /\ \A checks \in BOOLEAN : sub(add(a, b), b, checks) = TsOk(a) )
    /\ [][ (pc' = "sub_assign" /\ ~ Timestamp_lt(operands[1], operands[2])) =>
                /\ result' = Done
                /\ Normalized(operands'[1])
                /\ Magnitude(operands'[1]) =
                      Magnitude(operands[1]) - Magnitude(operands[2]) ]_vars

\* 01:00:00,000 - 00:00:00,999 borrowed through every field to 00:59:59,001.
C16_Witness ==
    /\ pc = "sub"
    /\ operands[1] = Timestamp(1, 0, 0, 0)
    /\ operands[2] = Timestamp(0, 0, 0, 999)
    /\ result = TsOk(Timestamp(0, 59, 59, 1))

\* C17: for a < b, a - b and a -= b panic and yield no timestamp, a -= b
\* leaving a as it was; duration() of a cue with start > end panics as well.
C17_NegativeDuration ==
    /\ []( /\ (pc = "sub" /\ Timestamp_lt(operands[1], operands[2]))
                => result.kind = "Panic"
           /\ (pc = "duration" /\ Timestamp_lt(operands[2], operands[1]))
                => result.kind = "Panic" )
    /\ [][ (pc' = "sub_assign" /\ Timestamp_lt(operands[1], operands[2])) =>
                (result' = Panic /\ operands' = operands) ]_vars

\* 00:59:59,999 - 01:00:00,000 panicked.
C17_Witness ==
    /\ pc = "sub"
    /\ operands[1] = Timestamp(0, 59, 59, 999)
    /\ operands[2] = Timestamp(1, 0, 0, 0)
    /\ result.kind = "Panic"

\* C18: shift by a negative offset whose magnitude exceeds the cue's start
\* returns an error and leaves start, end, index and text as they were.
C18_NegativeShiftRejected ==
    [][ (pc' = "shift" /\ operands[1] < 0 /\ -operands[1] > subline.start)
            => (result' = Err /\ subline' = subline) ]_vars

\* A shift reaching below the start, though not below the end, was refused.
C18_Witness ==
    /\ pc = "shift" /\ result = Err
    /\ operands[1] < 0
    /\ -operands[1] > subline.start
    /\ -operands[1] < subline.end

\* The text ends with "\r\n\r\n" and nothing blank stands before that.
EndsWithOneBlankLine(s) ==
    /\ Len(s) >= 4
    /\ SubSeq(s, Len(s) - 3, Len(s)) = CRLF \o CRLF
    /\ Len(s) > 4 => ~ IsSpace(s[Len(s) - 4])

\* C19: whatever the end of the input (no blank line, lines of spaces, more
\* line breaks than one blank line, in any line-ending style), the prepared
\* text ends with exactly "\r\n\r\n" with no whitespace before it, and
\* preparing it again changes nothing.
C19_Terminator ==
    pc # "raw" => (EndsWithOneBlankLine(content) /\ prepare(content) = content)

\* A block followed by lines of spaces was prepared, and so was one with no
\* blank line after it.
C19_Witness ==
    /\ pc = "prepared"
    /\ \/ content = prepare(TextOf(<<"plain">>, <<CRLF, CRLF>>, "spaces"))
       \/ content = prepare(TextOf(<<"plain">>, <<(<<LF>>), (<<LF>>)>>, "none"))
    /\ EndsWithOneBlankLine(content)

\* C20: in the prepared text every \n follows a \r and every \r is followed
\* by a \n.
C20_CanonicalBreaks ==
    pc # "raw" =>
        \A i \in 1..Len(content) :
            /\ content[i] = LF => (i > 1 /\ content[i - 1] = CR)
            /\ content[i] = CR => (i < Len(content) /\ content[i + 1] = LF)

\* C21: a prepared text in which the block grammar matches nowhere is refused
\* by from_file and by from_str alike, and no container comes back for it.
C21_ZeroBlocksRejected ==
    (pc \in {"from_file", "parsed"} /\ ~ check(content))
        => (result = InvalidData /\ inner = <<>>)

\* C22: shift fails only when start or end would fall below zero; for every
\* other offset (0 and the offset that brings start to exactly 0 included) it
\* succeeds and moves start and end by the offset.
C22_ShiftFailsOnlyBelowZero ==
    [][ (pc' = "shift" /\ subline.start + operands[1] >= 0
                       /\ subline.end + operands[1] >= 0)
            => /\ result' = Done
               /\ subline'.start = subline.start + operands[1]
               /\ subline'.end = subline.end + operands[1]
               /\ subline'.end - subline'.start = subline.end - subline.start
       ]_vars

====
